---- MODULE Spec2Model ----
(***************************************************************************)
(* Review-batch planning and response synthesis of the review agent        *)
(* (src/src/review-agent.ts).  Texts are sequences of one-character        *)
(* strings; a PRFile is a record of its filename and its patch.            *)
(***************************************************************************)
EXTENDS Integers, Sequences, FiniteSets, TLC

VARIABLES
    pc,             \* position of processPullRequest
    files,          \* the PRFile list handed to processPullRequest
    filteredFiles,  \* files.filter(filterPRFile)
    fetches,        \* number of getGitFile requests issued by preprocessFile
    strategy,       \* index into the builders list of reviewChangesRetry
    groups,         \* the batches reviewChanges hands to the model
    calls,          \* per batch: "pending", "rejected" or the resolved feedback
    modelCalls,     \* number of chat completions issued
    builderRuns,    \* number of response builder invocations
    result,         \* what processPullRequest returns (NoResult before)
    includeSuggestions, \* the includeSuggestions argument
    plan,           \* the locals of reviewChanges that lead to groups
    outcomes,       \* history: outcome of each builders pair tried so far
    reviewComments, \* the BuilderResponse reviewChangesRetry returned
    arrivals,       \* history: batch indexes in the order their calls settled
    sIn, sOut,      \* dedupSuggestions: argument and return value
    uIn, uOut,      \* generateGithubIssueUrl: arguments and rendered link
    pIn, pOut, pOut2, \* stripRemovedLines: a file, its stripped patch, and
                    \* the patch of the stripped file stripped again
    fIn, fOut,      \* generateInlineComments: its inputs and what it returns
    iIn, iCalls, iOut \* the inline comment processing of processPullRequest:
                    \* files and structured comments, the state of each
                    \* generateInlineComments call, the filtered fixes

pipelineVars == <<pc, files, filteredFiles, fetches, strategy, groups, calls,
                  modelCalls, builderRuns, result, includeSuggestions, plan,
                  outcomes, reviewComments, arrivals>>
dedupVars == <<sIn, sOut>>
urlVars == <<uIn, uOut>>
stripVars == <<pIn, pOut, pOut2>>
fixVars == <<fIn, fOut>>
inlineVars == <<iIn, iCalls, iOut>>

vars == <<pipelineVars, dedupVars, urlVars, stripVars, fixVars, inlineVars>>

(***************************************************************************)
(* Bounds of the model.                                                    *)
(***************************************************************************)
MaxFiles == 3
MaxSuggestions == 3
MaxPatchLen == 4
MaxLine == 4

(***************************************************************************)
(* Text helpers: String.prototype.split, Array.prototype.join,             *)
(* toLowerCase, startsWith, trim.                                          *)
(***************************************************************************)
NL == "\n"

Last(s) == s[Len(s)]

RECURSIVE Split(_, _)
Split(s, c) ==
    IF \A i \in 1..Len(s) : s[i] # c
    THEN <<s>>
    ELSE LET k == CHOOSE i \in 1..Len(s) :
                      s[i] = c /\ \A j \in 1..(i - 1) : s[j] # c
         IN  <<SubSeq(s, 1, k - 1)>> \o Split(SubSeq(s, k + 1, Len(s)), c)

RECURSIVE Join(_, _)
Join(parts, c) ==
    IF parts = <<>> THEN <<>>
    ELSE IF Len(parts) = 1 THEN parts[1]
    ELSE parts[1] \o <<c>> \o Join(Tail(parts), c)

LowerOf ==
    [A |-> "a", B |-> "b", C |-> "c", D |-> "d", E |-> "e", F |-> "f",
     G |-> "g", H |-> "h", I |-> "i", J |-> "j", K |-> "k", L |-> "l",
     M |-> "m", N |-> "n", O |-> "o", P |-> "p", Q |-> "q", R |-> "r",
     S |-> "s", T |-> "t", U |-> "u", V |-> "v", W |-> "w", X |-> "x",
     Y |-> "y", Z |-> "z"]

toLowerCase(s) ==
    [i \in 1..Len(s) |-> IF s[i] \in DOMAIN LowerOf THEN LowerOf[s[i]] ELSE s[i]]

startsWith(s, c) == Len(s) > 0 /\ s[1] = c

IsSpace(c) == c \in {" ", NL, "\t"}

RECURSIVE trimStart(_)
trimStart(s) ==
    IF s # <<>> /\ IsSpace(s[1]) THEN trimStart(Tail(s)) ELSE s

RECURSIVE trimEnd(_)
trimEnd(s) ==
    IF s # <<>> /\ IsSpace(Last(s)) THEN trimEnd(SubSeq(s, 1, Len(s) - 1)) ELSE s

trim(s) == trimEnd(trimStart(s))

(***************************************************************************)
(* filterFile (review-agent.ts 48-95).                                     *)
(***************************************************************************)
extensionsToIgnore ==
    { <<"p","d","f">>, <<"p","n","g">>, <<"j","p","g">>, <<"j","p","e","g">>,
      <<"g","i","f">>, <<"m","p","4">>, <<"m","p","3">>, <<"m","d">>,
      <<"j","s","o","n">>, <<"e","n","v">>, <<"t","o","m","l">>,
      <<"s","v","g">> }

filesToIgnore ==
    { <<"p","a","c","k","a","g","e","-","l","o","c","k",".","j","s","o","n">>,
      <<"y","a","r","n",".","l","o","c","k">>,
      <<".","g","i","t","i","g","n","o","r","e">>,
      <<"p","a","c","k","a","g","e",".","j","s","o","n">>,
      <<"t","s","c","o","n","f","i","g",".","j","s","o","n">>,
      <<"p","o","e","t","r","y",".","l","o","c","k">>,
      <<"r","e","a","d","m","e",".","m","d">> }

filterFile(filepath) ==
    LET filename == Last(Split(toLowerCase(filepath), "/"))
        splitFilename == Split(toLowerCase(filename), ".")
        extension == toLowerCase(Last(splitFilename))
    IN  IF filename # <<>> /\ filename \in filesToIgnore THEN FALSE
        ELSE IF Len(splitFilename) <= 1 THEN FALSE
        ELSE IF extension # <<>> /\ extension \in extensionsToIgnore THEN FALSE
        ELSE TRUE

filterPRFile(file) == filterFile(file.filename)

(***************************************************************************)
(* Token accounting.  The prompts module is not part of the sources; the   *)
(* estimator counts one unit per character, a conversation costs its       *)
(* prompt plus its diff, and it fits when cost plus the output margin is   *)
(* within the model limit.                                                 *)
(***************************************************************************)
ModelTokenLimit == 10
OutputMargin == 1
XmlPromptTokens == 3
PlainPromptTokens == 1

getTokenLength(text) == Len(text)

buildPatchPrompt(file) == file.patch

PromptTokens(convoBuilder) ==
    IF convoBuilder = "getXMLReviewPrompt" THEN XmlPromptTokens
    ELSE PlainPromptTokens

constructPrompt(fs, convoBuilder) ==
    [prompt |-> convoBuilder,
     diff |-> Join([i \in 1..Len(fs) |-> buildPatchPrompt(fs[i])], NL)]

isConversationWithinLimit(convo) ==
    PromptTokens(convo.prompt) + getTokenLength(convo.diff) + OutputMargin
        <= ModelTokenLimit

(***************************************************************************)
(* groupFilesByExtension (106-120): a Map in insertion order, as a         *)
(* sequence of [ext, files] entries.  A file whose extension is the empty  *)
(* string is not put in any group.                                         *)
(***************************************************************************)
ExtensionOf(file) == toLowerCase(Last(Split(file.filename, ".")))

RECURSIVE groupFilesByExtension(_)
groupFilesByExtension(fs) ==
    IF fs = <<>> THEN <<>>
    ELSE LET n == Len(fs)
             before == groupFilesByExtension(SubSeq(fs, 1, n - 1))
             file == fs[n]
             extension == ExtensionOf(file)
         IN  IF extension = <<>> THEN before
             ELSE IF \E i \in 1..Len(before) : before[i].ext = extension
             THEN [i \in 1..Len(before) |->
                      IF before[i].ext = extension
                      THEN [before[i] EXCEPT !.files = Append(@, file)]
                      ELSE before[i]]
             ELSE Append(before, [ext |-> extension, files |-> <<file>>])

(***************************************************************************)
(* Array.prototype.sort by patchTokenLength, ascending and stable.         *)
(***************************************************************************)
RECURSIVE InsertByTokenLength(_, _)
InsertByTokenLength(sorted, file) ==
    IF sorted = <<>> THEN <<file>>
    ELSE IF Last(sorted).patchTokenLength <= file.patchTokenLength
    THEN Append(sorted, file)
    ELSE Append(InsertByTokenLength(SubSeq(sorted, 1, Len(sorted) - 1), file),
                Last(sorted))

\* The files left in the order they came in.
unsorted(fs) == fs

RECURSIVE sortByTokenLength(_)
sortByTokenLength(fs) ==
    IF fs = <<>> THEN <<>>
    ELSE InsertByTokenLength(sortByTokenLength(SubSeq(fs, 1, Len(fs) - 1)),
                             Last(fs))

(***************************************************************************)
(* processWithinLimitFiles (123-169).                                      *)
(***************************************************************************)
\* A forEach body that appends without testing the budget.
GreedyStepNoCheck(st, file, convoBuilder) ==
    [st EXCEPT !.cur = Append(@, file)]

\* One iteration of filesForExt.forEach (149-159); st = [out, cur].
GreedyStep(st, file, convoBuilder) ==
    IF isConversationWithinLimit(
           constructPrompt(Append(st.cur, file), convoBuilder))
    THEN [st EXCEPT !.cur = Append(@, file)]
    ELSE [out |-> Append(st.out, st.cur), cur |-> <<file>>]

RECURSIVE GreedyFold(_, _, _)
GreedyFold(st, fs, convoBuilder) ==
    IF fs = <<>> THEN st
    ELSE GreedyFold(GreedyStep(st, Head(fs), convoBuilder), Tail(fs),
                    convoBuilder)

\* The else branch 142-163 for one extension group.
GreedySplit(filesForExt, convoBuilder) ==
    LET st == GreedyFold([out |-> <<>>, cur |-> <<>>],
                         sortByTokenLength(filesForExt), convoBuilder)
    IN  IF Len(st.cur) > 0 THEN Append(st.out, st.cur) ELSE st.out

\* The body of the loop over grouped.entries() (136-164).
GroupsForExtension(filesForExt, convoBuilder) ==
    IF isConversationWithinLimit(constructPrompt(filesForExt, convoBuilder))
    THEN <<filesForExt>>
    ELSE GreedySplit(filesForExt, convoBuilder)

RECURSIVE ConcatGroups(_, _)
ConcatGroups(grouped, convoBuilder) ==
    IF grouped = <<>> THEN <<>>
    ELSE GroupsForExtension(Head(grouped).files, convoBuilder)
             \o ConcatGroups(Tail(grouped), convoBuilder)

processWithinLimitFiles(fs, convoBuilder) ==
    IF ~isConversationWithinLimit(constructPrompt(fs, convoBuilder))
    THEN ConcatGroups(groupFilesByExtension(fs), convoBuilder)
    ELSE <<fs>>

(***************************************************************************)
(* stripRemovedLines (171-179).                                            *)
(***************************************************************************)
\* A stripping that removes the marker of a removal line, not the line.
StripPatchMarkerOnly(patch) ==
    LET lines == Split(patch, NL)
    IN  Join([i \in 1..Len(lines) |->
                 IF startsWith(lines[i], "-") THEN Tail(lines[i]) ELSE lines[i]],
             NL)

StripPatch(patch) ==
    LET lines == Split(patch, NL)
    IN  Join(SelectSeq(lines, LAMBDA line : ~startsWith(line, "-")), NL)

stripRemovedLines(originalFile) ==
    [originalFile EXCEPT !.patch = StripPatch(originalFile.patch)]

(***************************************************************************)
(* processOutsideLimitFiles (181-223).                                     *)
(***************************************************************************)
FitsAlone(file, convoBuilder) ==
    isConversationWithinLimit(constructPrompt(<<file>>, convoBuilder))

\* A planner that batches every stripped file, also one still too large.
processOutsideLimitFilesKeepLarge(fs, convoBuilder) ==
    IF Len(fs) = 0 THEN <<>>
    ELSE LET stripped == [i \in 1..Len(fs) |-> stripRemovedLines(fs[i])]
         IN  IF isConversationWithinLimit(constructPrompt(stripped, convoBuilder))
             THEN <<stripped>>
             ELSE [i \in 1..Len(stripped) |-> <<stripped[i]>>]

processOutsideLimitFiles(fs, convoBuilder) ==
    IF Len(fs) = 0 THEN <<>>
    ELSE LET stripped == [i \in 1..Len(fs) |-> stripRemovedLines(fs[i])]
         IN  IF isConversationWithinLimit(constructPrompt(stripped, convoBuilder))
             THEN <<stripped>>
             ELSE LET withinLimits ==
                          SelectSeq(stripped,
                                    LAMBDA f : FitsAlone(f, convoBuilder))
                  IN  processWithinLimitFiles(withinLimits, convoBuilder)

(***************************************************************************)
(* reviewChanges 387-429: filter, annotate with patchTokenLength,          *)
(* partition, plan both partitions, concatenate.                           *)
(***************************************************************************)
WithTokenLength(file) ==
    [filename |-> file.filename, patch |-> file.patch,
     patchTokenLength |-> getTokenLength(buildPatchPrompt(file))]

reviewChangesPlan(fs, convoBuilder) ==
    LET kept == SelectSeq(fs, filterPRFile)
        annotated == [i \in 1..Len(kept) |-> WithTokenLength(kept[i])]
        within == SelectSeq(annotated, LAMBDA f : FitsAlone(f, convoBuilder))
        outside == SelectSeq(annotated, LAMBDA f : ~FitsAlone(f, convoBuilder))
    IN  [patchesWithinModelLimit |-> within,
         patchesOutsideModelLimit |-> outside,
         withinLimitsPatchGroups |-> processWithinLimitFiles(within, convoBuilder),
         exceedingLimitsPatchGroups |->
             processOutsideLimitFiles(outside, convoBuilder)]

GroupsOf(p) == p.withinLimitsPatchGroups \o p.exceedingLimitsPatchGroups

(***************************************************************************)
(* Suggestions.  xml2js hands each child tag over as a list of texts; a    *)
(* raw suggestion is a record of the five tags, the empty list for a tag   *)
(* the suggestion lacks.  A well-formed model output is abstracted to the  *)
(* list of its raw suggestions.                                            *)
(***************************************************************************)
NullContent == [kind |-> "null"]
Malformed == [kind |-> "malformed"]
XmlDoc(raws) == [kind |-> "xml", suggestions |-> raws]
UndefinedRaw == [kind |-> "undefined"]
Threw == [threw |-> TRUE]
Returned(v) == [threw |-> FALSE, value |-> v]

\* PRSuggestionImpl.identity is not part of the sources: the composite key
\* of filename, description and code.
Identity(suggestion) ==
    <<suggestion.filename, suggestion.describe, suggestion.code>>

\* 248-251: trim the code, then its first and its last line.
TrimCode(code) ==
    LET lines == Split(trim(code), NL)
        first == [lines EXCEPT ![1] = trim(@)]
        both == [first EXCEPT ![Len(first)] = trim(@)]
    IN  Join(both, NL)

\* xmlParser.parseStringPromise on feedback fb (233-240): rejects for a null
\* content (fb.split) and for malformed markup; an empty root element comes
\* back as the empty string, which has no suggestion property.
ParseXml(fb) ==
    IF fb.kind \in {"null", "malformed"} THEN Threw
    ELSE IF fb.suggestions = <<>> THEN Returned([review |-> [empty |-> TRUE]])
    ELSE Returned([review |-> [empty |-> FALSE, suggestion |-> fb.suggestions]])

\* sug.review.suggestion (244), followed by .flat(1) (245): the undefined
\* of a review without suggestions stays as one element.
SuggestionsOfParsed(sug) ==
    IF sug.review.empty THEN <<UndefinedRaw>> ELSE sug.review.suggestion

RECURSIVE Flat1(_)
Flat1(lists) ==
    IF lists = <<>> THEN <<>> ELSE Head(lists) \o Flat1(Tail(lists))

\* 248-259: rawSuggestion.code[0] and the like throw a TypeError when the
\* suggestion is undefined or lacks the tag (a lacking tag is the empty list).
RawThrows(raw) ==
    \/ raw.kind = "undefined"
    \/ raw.code = <<>> \/ raw.describe = <<>> \/ raw.type = <<>>
    \/ raw.comment = <<>> \/ raw.filename = <<>>

NewPRSuggestion(raw) ==
    [describe |-> raw.describe[1], type |-> raw.type[1],
     comment |-> raw.comment[1], code |-> TrimCode(raw.code[1]),
     filename |-> raw.filename[1]]

processXMLSuggestions(feedbacks) ==
    LET parsed == [i \in 1..Len(feedbacks) |-> ParseXml(feedbacks[i])]
    IN  IF \E i \in 1..Len(parsed) : parsed[i].threw THEN Threw
        ELSE LET allSuggestions ==
                     Flat1([i \in 1..Len(parsed) |->
                               SuggestionsOfParsed(parsed[i].value)])
             IN  IF \E i \in 1..Len(allSuggestions) : RawThrows(allSuggestions[i])
                 THEN Threw
                 ELSE Returned([i \in 1..Len(allSuggestions) |->
                                   NewPRSuggestion(allSuggestions[i])])

(***************************************************************************)
(* dedupSuggestions (285-293): a Map from identity to suggestion, kept as  *)
(* a sequence of entries in insertion order.                               *)
(***************************************************************************)
\* A Map.set that keeps the entry already stored under the key.
MapSetFirstWins(m, k, v) ==
    IF \E i \in 1..Len(m) : m[i].key = k THEN m
    ELSE Append(m, [key |-> k, value |-> v])

MapSet(m, k, v) ==
    IF \E i \in 1..Len(m) : m[i].key = k
    THEN [i \in 1..Len(m) |-> IF m[i].key = k THEN [key |-> k, value |-> v]
                              ELSE m[i]]
    ELSE Append(m, [key |-> k, value |-> v])

RECURSIVE SuggestionsMap(_)
SuggestionsMap(suggestions) ==
    IF suggestions = <<>> THEN <<>>
    ELSE LET n == Len(suggestions)
         IN  MapSet(SuggestionsMap(SubSeq(suggestions, 1, n - 1)),
                    Identity(suggestions[n]), suggestions[n])

dedupSuggestions(suggestions) ==
    LET m == SuggestionsMap(suggestions)
    IN  [i \in 1..Len(m) |-> m[i].value]

(***************************************************************************)
(* convertPRSuggestionToComment (302-334): one comment per filename, in    *)
(* order of first appearance; the markdown rendering is left abstract.     *)
(***************************************************************************)
RECURSIVE convertPRSuggestionToComment(_)
convertPRSuggestionToComment(suggestions) ==
    IF suggestions = <<>> THEN <<>>
    ELSE LET n == Len(suggestions)
             before == convertPRSuggestionToComment(SubSeq(suggestions, 1, n - 1))
             s == suggestions[n]
         IN  IF \E i \in 1..Len(before) : before[i].filename = s.filename
             THEN [i \in 1..Len(before) |->
                      IF before[i].filename = s.filename
                      THEN [before[i] EXCEPT !.suggestions = Append(@, s)]
                      ELSE before[i]]
             ELSE Append(before, [filename |-> s.filename, suggestions |-> <<s>>])

(***************************************************************************)
(* The response builders (343-376) and the builders list (617-628).        *)
(***************************************************************************)
xmlResponseBuilder(feedbacks) ==
    LET parsedXMLSuggestions == processXMLSuggestions(feedbacks)
    IN  IF parsedXMLSuggestions.threw THEN Threw
        ELSE Returned(
                 [comment |-> convertPRSuggestionToComment(
                                  dedupSuggestions(parsedXMLSuggestions.value)),
                  structuredComments |-> parsedXMLSuggestions.value])

\* A plain builder that dereferences each feedback (fb.trim()) and so
\* throws on a null content.
basicResponseBuilderStrict(feedbacks) ==
    IF \E i \in 1..Len(feedbacks) : feedbacks[i].kind = "null" THEN Threw
    ELSE Returned([comment |-> feedbacks, structuredComments |-> <<>>])

\* feedbacks.join("\n"): a null element is joined as the empty text.
basicResponseBuilder(feedbacks) ==
    Returned([comment |-> [i \in 1..Len(feedbacks) |->
                              IF feedbacks[i].kind = "null"
                              THEN [kind |-> "text"] ELSE feedbacks[i]],
              structuredComments |-> <<>>])

\* The builders list with its pairs exchanged.
BuildersPlainFirst ==
    << [convoBuilder |-> "getReviewPrompt", responseBuilder |-> "basic"],
       [convoBuilder |-> "getXMLReviewPrompt", responseBuilder |-> "xml"] >>

\* 617-628: the list handed to reviewChangesRetry, which walks it in order
\* (565).
Builders ==
    << [convoBuilder |-> "getXMLReviewPrompt", responseBuilder |-> "xml"],
       [convoBuilder |-> "getReviewPrompt", responseBuilder |-> "basic"] >>

responseBuilder(name, feedbacks) ==
    IF name = "xml" THEN xmlResponseBuilder(feedbacks)
    ELSE basicResponseBuilder(feedbacks)

(***************************************************************************)
(* Inputs: the changed files a pull request may list, and what the model   *)
(* may answer for a batch.                                                 *)
(***************************************************************************)
PRFile(filename, patch) == [filename |-> filename, patch |-> patch]

Catalog ==
    << PRFile(<<"b",".","t","s">>, <<"+","x","x","x">>),
       PRFile(<<"a",".","t","s">>, <<"+","x">>),
       PRFile(<<"e",".","t","s">>, <<"+","x">>),
       PRFile(<<"c",".","p","y">>, <<"+","x","x">>),
       PRFile(<<"d",".">>, <<"+","x">>),
       PRFile(<<"s","/","g",".","T","S">>,
              <<"-","x","x","x","x","x","x",NL,"+","x">>),
       PRFile(<<"h",".","t","s">>, <<"+","x","x","x","x","x","x","x","x">>),
       PRFile(<<"R","E","A","D","M","E",".","m","d">>, <<"+","x">>),
       PRFile(<<"s","/","m","k">>, <<"+","x">>),
       PRFile(<<"i",".","P","N","G">>, <<>>) >>

CatalogSet == {Catalog[i] : i \in 1..Len(Catalog)}

Reverse(q) == [i \in 1..Len(q) |-> q[Len(q) + 1 - i]]

\* Up to MaxFiles distinct files, in the order of Catalog or in the reverse.
FileLists ==
    LET chosen == {SelectSeq(Catalog, LAMBDA f : f \in S) :
                      S \in {T \in SUBSET CatalogSet : Cardinality(T) <= MaxFiles}}
    IN  chosen \cup {Reverse(q) : q \in chosen}

RawSuggestion(describe, comment, code, filename) ==
    [kind |-> "raw", describe |-> describe, type |-> <<"bug">>,
     comment |-> comment, code |-> code, filename |-> filename]

RawA == RawSuggestion(<<"d1">>, <<"c1">>, <<<<" ","x">>>>, <<<<"a",".","t","s">>>>)
RawB == RawSuggestion(<<"d1">>, <<"c2">>, <<<<"x",NL>>>>, <<<<"a",".","t","s">>>>)
RawC == RawSuggestion(<<"d2">>, <<"c3">>, <<<<"y">>>>, <<<<"z",".","t","s">>>>)
RawNoFilename == RawSuggestion(<<"d2">>, <<"c3">>, <<<<"y">>>>, <<>>)

Feedbacks ==
    { NullContent, Malformed, XmlDoc(<<>>), XmlDoc(<<RawA>>),
      XmlDoc(<<RawB, RawC>>), XmlDoc(<<RawNoFilename>>) }

(***************************************************************************)
(* processPullRequest (590-657) with reviewChangesRetry (560-578) and      *)
(* reviewChanges (378-443).                                                *)
(***************************************************************************)
NoResult == [kind |-> "none"]
NullReview == [null |-> TRUE]
Review(value) ==
    [null |-> FALSE, comment |-> value.comment,
     structuredComments |-> value.structuredComments]
ReviewResult(review, suggestions) ==
    [kind |-> "returned", review |-> review, suggestions |-> suggestions]

Pending == [state |-> "pending"]
Rejected == [state |-> "rejected"]
Resolved(fb) == [state |-> "resolved", content |-> fb]

NoPlan ==
    [patchesWithinModelLimit |-> <<>>, patchesOutsideModelLimit |-> <<>>,
     withinLimitsPatchGroups |-> <<>>, exceedingLimitsPatchGroups |-> <<>>]

InitPipeline ==
    /\ pc = "start"
    /\ files \in FileLists
    /\ includeSuggestions \in BOOLEAN
    /\ filteredFiles = <<>>
    /\ fetches = 0
    /\ strategy = 1
    /\ groups = <<>>
    /\ calls = <<>>
    /\ modelCalls = 0
    /\ builderRuns = 0
    /\ result = NoResult
    /\ plan = NoPlan
    /\ outcomes = <<>>
    /\ reviewComments = NullReview
    /\ arrivals = <<>>

NotRun == [ran |-> FALSE]
Ran(v) == [ran |-> TRUE, value |-> v]

IdleDedup == sIn = <<>> /\ sOut = NotRun
IdleUrl == uIn = NotRun /\ uOut = NotRun
IdleStrip == pIn = NotRun /\ pOut = NotRun /\ pOut2 = NotRun
IdleFix == fIn = NotRun /\ fOut = NotRun
IdleInline == iIn = NotRun /\ iCalls = <<>> /\ iOut = NotRun

\* A short-circuit that tests the unfiltered list.
NothingToReviewUnfiltered(fs, filtered) == Len(fs) = 0

\* 599: the test that short-circuits the review.
NothingToReview(fs, filtered) == Len(filtered) = 0

\* 597-607
FilterFiles ==
    /\ pc = "start"
    /\ LET filtered == SelectSeq(files, filterPRFile)
       IN  /\ filteredFiles' = filtered
           /\ IF NothingToReview(files, filtered)
              THEN /\ pc' = "done"
                   /\ result' = ReviewResult(NullReview, <<>>)
              ELSE /\ pc' = "preprocess"
                   /\ UNCHANGED result
    /\ UNCHANGED <<files, fetches, strategy, groups, calls, modelCalls,
                   builderRuns, includeSuggestions, plan, outcomes,
                   reviewComments, arrivals>>

\* 608-612 with preprocessFile 517-552: two getGitFile requests per file.
Preprocess ==
    /\ pc = "preprocess"
    /\ fetches' = fetches + 2 * Len(filteredFiles)
    /\ pc' = "retry"
    /\ UNCHANGED <<files, filteredFiles, strategy, groups, calls, modelCalls,
                   builderRuns, result, includeSuggestions, plan, outcomes,
                   reviewComments, arrivals>>

\* 565-570 and 387-435: the next builders pair plans its batches and issues
\* one chat completion per batch.
StartAttempt ==
    /\ pc = "retry"
    /\ strategy <= Len(Builders)
    /\ LET p == reviewChangesPlan(filteredFiles, Builders[strategy].convoBuilder)
       IN  /\ plan' = p
           /\ groups' = GroupsOf(p)
           /\ calls' = [i \in 1..Len(GroupsOf(p)) |-> Pending]
           /\ modelCalls' = modelCalls + Len(GroupsOf(p))
    /\ arrivals' = <<>>
    /\ pc' = "calls"
    /\ UNCHANGED <<files, filteredFiles, fetches, strategy, builderRuns, result,
                   includeSuggestions, outcomes, reviewComments>>

\* 30-35: a chat completion resolves with the message content.
CallResolve ==
    /\ pc = "calls"
    /\ \E i \in 1..Len(calls), fb \in Feedbacks :
          /\ calls[i] = Pending
          /\ calls' = [calls EXCEPT ![i] = Resolved(fb)]
          /\ arrivals' = Append(arrivals, i)
    /\ UNCHANGED <<pc, files, filteredFiles, fetches, strategy, groups,
                   modelCalls, builderRuns, result, includeSuggestions, plan,
                   outcomes, reviewComments>>

\* 30-35: a chat completion rejects.
CallReject ==
    /\ pc = "calls"
    /\ \E i \in 1..Len(calls) :
          /\ calls[i] = Pending
          /\ calls' = [calls EXCEPT ![i] = Rejected]
          /\ arrivals' = Append(arrivals, i)
    /\ UNCHANGED <<pc, files, filteredFiles, fetches, strategy, groups,
                   modelCalls, builderRuns, result, includeSuggestions, plan,
                   outcomes, reviewComments>>

\* 571-575: the catch of reviewChangesRetry moves on to the next pair.
AttemptFailed ==
    /\ outcomes' = Append(outcomes, "failed")
    /\ strategy' = strategy + 1
    /\ pc' = "retry"
    /\ groups' = <<>>
    /\ calls' = <<>>
    /\ plan' = NoPlan
    /\ arrivals' = <<>>

\* 431-435: Promise.all rejects as soon as one call has rejected.
JoinRejected ==
    /\ pc = "calls"
    /\ \E i \in 1..Len(calls) : calls[i] = Rejected
    /\ AttemptFailed
    /\ UNCHANGED <<files, filteredFiles, fetches, modelCalls, builderRuns,
                   result, includeSuggestions, reviewComments>>

AllResolved == \A i \in 1..Len(calls) : calls[i].state = "resolved"
FeedbacksOf(cs) == [i \in 1..Len(cs) |-> cs[i].content]

\* A join that hands the answers over in the order they arrived.
JoinedByArrival(cs, order) == [k \in 1..Len(order) |-> cs[order[k]].content]

\* 431-435: Promise.all resolves with the values in the order of the
\* promises it was given, whatever the order they settled in.
JoinedFeedbacks(cs, order) == FeedbacksOf(cs)

\* 634: whether the inline comment processing starts.
StartsInline(include, value) ==
    include /\ Len(value.structuredComments) > 0

\* 436-442 and 570: every call has resolved; the response builder runs on
\* the feedbacks in batch order.  Its result is what reviewChangesRetry
\* returns; its exception is caught at 571.
Respond ==
    /\ pc = "calls"
    /\ AllResolved
    /\ builderRuns' = builderRuns + 1
    /\ LET r == responseBuilder(Builders[strategy].responseBuilder,
                                JoinedFeedbacks(calls, arrivals))
       IN  IF r.threw
           THEN /\ AttemptFailed
                /\ UNCHANGED <<result, reviewComments>>
           ELSE /\ outcomes' = Append(outcomes, "succeeded")
                /\ reviewComments' = Review(r.value)
                /\ IF StartsInline(includeSuggestions, r.value)
                   THEN pc' = "inline" /\ UNCHANGED result
                   ELSE /\ pc' = "done"
                        /\ result' = ReviewResult(Review(r.value), <<>>)
                /\ UNCHANGED <<strategy, groups, calls, plan, arrivals>>
    /\ UNCHANGED <<files, filteredFiles, fetches, modelCalls,
                   includeSuggestions>>

\* A retry loop that ends with an empty review instead of an error.
AllBuildersFailedDegraded ==
    [pc |-> "done", result |-> ReviewResult(NullReview, <<>>)]

\* 577: what reviewChangesRetry does when no pair is left; processPullRequest
\* has no handler, so the error reaches its caller.
AllBuildersFailed == [pc |-> "error", result |-> NoResult]

RetryExhausted ==
    /\ pc = "retry"
    /\ strategy > Len(Builders)
    /\ pc' = AllBuildersFailed.pc
    /\ result' = AllBuildersFailed.result
    /\ UNCHANGED <<files, filteredFiles, fetches, strategy, groups, calls,
                   modelCalls, builderRuns, includeSuggestions, plan, outcomes,
                   reviewComments, arrivals>>

\* 636-657: one generateInlineComments per structured comment whose file is
\* among files; each yields a fix or null, and the nulls are filtered out.
HasFile(fs, suggestion) ==
    \E i \in 1..Len(fs) : fs[i].filename = suggestion.filename

NullFix == [null |-> TRUE]
InlineFix(suggestion) == [null |-> FALSE, file |-> suggestion.filename]

InlineComments ==
    /\ pc = "inline"
    /\ LET sc == reviewComments.structuredComments
           found == {i \in 1..Len(sc) : HasFile(files, sc[i])}
       IN  /\ modelCalls' = modelCalls + Cardinality(found)
           /\ \E fixed \in SUBSET found :
                 LET inlineComments ==
                         [i \in 1..Len(sc) |->
                             IF i \in fixed THEN InlineFix(sc[i]) ELSE NullFix]
                 IN  result' = ReviewResult(
                                   reviewComments,
                                   SelectSeq(inlineComments,
                                             LAMBDA c : ~c.null))
    /\ pc' = "done"
    /\ UNCHANGED <<files, filteredFiles, fetches, strategy, groups, calls,
                   builderRuns, includeSuggestions, plan, outcomes,
                   reviewComments, arrivals>>

Init ==
    InitPipeline /\ IdleDedup /\ IdleUrl /\ IdleStrip /\ IdleFix /\ IdleInline

Next ==
    \/ FilterFiles /\ UNCHANGED <<dedupVars, urlVars, stripVars, fixVars, inlineVars>>
    \/ Preprocess /\ UNCHANGED <<dedupVars, urlVars, stripVars, fixVars, inlineVars>>
    \/ StartAttempt /\ UNCHANGED <<dedupVars, urlVars, stripVars, fixVars, inlineVars>>
    \/ CallResolve /\ UNCHANGED <<dedupVars, urlVars, stripVars, fixVars, inlineVars>>
    \/ CallReject /\ UNCHANGED <<dedupVars, urlVars, stripVars, fixVars, inlineVars>>
    \/ JoinRejected /\ UNCHANGED <<dedupVars, urlVars, stripVars, fixVars, inlineVars>>
    \/ Respond /\ UNCHANGED <<dedupVars, urlVars, stripVars, fixVars, inlineVars>>
    \/ RetryExhausted /\ UNCHANGED <<dedupVars, urlVars, stripVars, fixVars, inlineVars>>
    \/ InlineComments /\ UNCHANGED <<dedupVars, urlVars, stripVars, fixVars, inlineVars>>

Spec == Init /\ [][Next]_vars

(***************************************************************************)
(* dedupSuggestions on its own: any list of parsed suggestions.            *)
(***************************************************************************)
SuggestionCatalog ==
    { NewPRSuggestion(RawA), NewPRSuggestion(RawB), NewPRSuggestion(RawC),
      [NewPRSuggestion(RawC) EXCEPT !.type = "style"] }

SeqsUpTo(S, n) == UNION {[1..k -> S] : k \in 0..n}

InitDedup ==
    /\ sIn \in SeqsUpTo(SuggestionCatalog, MaxSuggestions)
    /\ sOut = NotRun

Dedup ==
    /\ ~sOut.ran
    /\ sOut' = Ran(dedupSuggestions(sIn))
    /\ UNCHANGED sIn

IdlePipeline ==
    /\ pc = "idle"
    /\ files = <<>>
    /\ includeSuggestions = FALSE
    /\ filteredFiles = <<>>
    /\ fetches = 0
    /\ strategy = 1
    /\ groups = <<>>
    /\ calls = <<>>
    /\ modelCalls = 0
    /\ builderRuns = 0
    /\ result = NoResult
    /\ plan = NoPlan
    /\ outcomes = <<>>
    /\ reviewComments = NullReview
    /\ arrivals = <<>>

DedupInit ==
    InitDedup /\ IdlePipeline /\ IdleUrl /\ IdleStrip /\ IdleFix /\ IdleInline

NextDedup == Dedup /\ UNCHANGED <<pipelineVars, urlVars, stripVars, fixVars, inlineVars>>

SpecDedup == DedupInit /\ [][NextDedup]_vars

(***************************************************************************)
(* stripRemovedLines on its own: any patch text over a small alphabet.     *)
(***************************************************************************)
PatchAlphabet == {"-", "+", "x", NL}

InitStrip ==
    /\ \E patch \in SeqsUpTo(PatchAlphabet, MaxPatchLen) :
          pIn = Ran(PRFile(<<"a",".","t","s">>, patch))
    /\ pOut = NotRun
    /\ pOut2 = NotRun

StripOnce ==
    /\ ~pOut.ran
    /\ pOut' = Ran(stripRemovedLines(pIn.value))
    /\ UNCHANGED <<pIn, pOut2>>

StripAgain ==
    /\ pOut.ran
    /\ ~pOut2.ran
    /\ pOut2' = Ran(stripRemovedLines(pOut.value))
    /\ UNCHANGED <<pIn, pOut>>

NextStrip ==
    \/ StripOnce /\ UNCHANGED <<pipelineVars, dedupVars, urlVars, fixVars, inlineVars>>
    \/ StripAgain /\ UNCHANGED <<pipelineVars, dedupVars, urlVars, fixVars, inlineVars>>

StripInit ==
    InitStrip /\ IdlePipeline /\ IdleDedup /\ IdleUrl /\ IdleFix /\ IdleInline

SpecStrip == StripInit /\ [][NextStrip]_vars

(***************************************************************************)
(* generateGithubIssueUrl (264-283).  Only lengths matter here: a text is  *)
(* a sequence of chunks, each a literal or a repeated character with its   *)
(* length in UTF-16 units.                                                 *)
(***************************************************************************)
UrlLimit == 2048

Lit(str) == <<[s |-> str, n |-> Len(str)]>>
Rep(c, n) == IF n = 0 THEN <<>> ELSE <<[s |-> c, n |-> n]>>

RECURSIVE TextLen(_)
TextLen(t) == IF t = <<>> THEN 0 ELSE Head(t).n + TextLen(Tail(t))

\* encodeURIComponent: an unreserved character stays; any other becomes
\* %XX for each byte of its UTF-8 encoding.
Utf8Bytes(c) == IF c = "é" THEN 2 ELSE 1
EncodedWidth(c) == IF c \in {"a", "-", "."} THEN 1 ELSE 3 * Utf8Bytes(c)

encodeURIComponent(t) ==
    [i \in 1..Len(t) |->
        IF EncodedWidth(t[i].s) = 1 THEN t[i]
        ELSE [s |-> <<"%", t[i].s>>, n |-> EncodedWidth(t[i].s) * t[i].n]]

IssueUrl(owner, repoName, encodedTitle, encodedBody, encodedCodeBlock) ==
    Lit("https://github.com/") \o owner \o Lit("/") \o repoName
        \o Lit("/issues/new?title=") \o encodedTitle \o Lit("&body=")
        \o encodedBody \o encodedCodeBlock

\* 279: the test that drops the code block.
TooLong(url) == TextLen(url) > UrlLimit

\* codeblock is optional: [given |-> FALSE] when the argument is left out.
generateGithubIssueUrl(owner, repoName, title, body, codeblock) ==
    LET encodedTitle == encodeURIComponent(title)
        encodedBody == encodeURIComponent(body)
        encodedCodeBlock ==
            IF codeblock.given /\ codeblock.text # <<>>
            THEN encodeURIComponent(Rep(NL, 1) \o codeblock.text \o Rep(NL, 1))
            ELSE <<>>
        full == IssueUrl(owner, repoName, encodedTitle, encodedBody,
                         encodedCodeBlock)
        url == IF TooLong(full)
               THEN IssueUrl(owner, repoName, encodedTitle, encodedBody, <<>>)
               ELSE full
    IN  Lit("[Create Issue](") \o url \o Lit(")")

Owners == {Rep("a", 5), Rep("a", 30)}
RepoNames == {Rep("a", 4)}
Titles == {Rep("a", 10), Rep(" ", 10)}
Bodies == {Rep("a", 100), Rep("a", 1900), Rep("a", 3000), Rep(" ", 650),
           Rep("é", 300) \o Rep("a", 100)}
CodeBlocks ==
    {[given |-> FALSE]} \cup
    {[given |-> TRUE, text |-> t] :
        t \in {<<>>, Rep("a", 79), Rep("a", 80), Rep("a", 2000)}}

InitUrl ==
    /\ \E owner \in Owners, repoName \in RepoNames, title \in Titles,
          body \in Bodies, codeblock \in CodeBlocks :
          uIn = Ran([owner |-> owner, repoName |-> repoName, title |-> title,
                     body |-> body, codeblock |-> codeblock])
    /\ uOut = NotRun

GenerateUrl ==
    /\ ~uOut.ran
    /\ uOut' = Ran(generateGithubIssueUrl(uIn.value.owner, uIn.value.repoName,
                                          uIn.value.title, uIn.value.body,
                                          uIn.value.codeblock))
    /\ UNCHANGED uIn

UrlInit ==
    InitUrl /\ IdlePipeline /\ IdleDedup /\ IdleStrip /\ IdleFix /\ IdleInline

NextUrl == GenerateUrl /\ UNCHANGED <<pipelineVars, dedupVars, stripVars, fixVars, inlineVars>>

SpecUrl == UrlInit /\ [][NextUrl]_vars

(***************************************************************************)
(* The inline fix of one suggestion: indentCodeFix (445-456),              *)
(* isCodeSuggestionNew (458-471), generateInlineComments (473-509).        *)
(***************************************************************************)
Max(a, b) == IF a >= b THEN a ELSE b
Min(a, b) == IF a <= b THEN a ELSE b

\* Array.prototype.slice(start, end): zero-based, end exclusive, a negative
\* index counts from the end, both are clamped to the array.
slice(arr, start, end) ==
    LET len == Len(arr)
        from == IF start < 0 THEN Max(len + start, 0) ELSE Min(start, len)
        to == IF end < 0 THEN Max(len + end, 0) ELSE Min(end, len)
    IN  IF from >= to THEN <<>> ELSE SubSeq(arr, from + 1, to)

\* 453: firstLine.match(/^(\s*)/)[0], the leading whitespace of a line.
RECURSIVE leadingWhitespace(_)
leadingWhitespace(line) ==
    IF line # <<>> /\ IsSpace(line[1])
    THEN <<line[1]>> \o leadingWhitespace(Tail(line))
    ELSE <<>>

\* 445-456.  fileLines[lineStart - 1] is undefined when lineStart is not a
\* line of the file, and undefined.match throws.
indentCodeFix(file, code, lineStart) ==
    LET fileLines == Split(file, NL)
    IN  IF lineStart < 1 \/ lineStart > Len(fileLines) THEN Threw
        ELSE LET firstLine == fileLines[lineStart]
                 codeLines == Split(code, NL)
                 indentation == leadingWhitespace(firstLine)
                 indentedCodeLines ==
                     [i \in 1..Len(codeLines) |-> indentation \o codeLines[i]]
             IN  Returned(Join(indentedCodeLines, NL))

\* 458-471.
isCodeSuggestionNew(contents, suggestion) ==
    LET fileLines == Split(contents, NL)
        targetLines == Join(slice(fileLines, suggestion.line_start - 1,
                                  suggestion.line_end), NL)
    IN  trim(targetLines) # trim(suggestion.correction)

\* current_contents of a PRFile: a text, or missing.
NoContents == [present |-> FALSE]
Contents(text) == [present |-> TRUE, text |-> text]
InlineFile(filename, contents) ==
    [filename |-> filename, current_contents |-> contents]

\* What generateChatCompletion may do for the inline fix prompt.
CallRejected == [kind |-> "rejected"]
NoFunctionCall == [kind |-> "none"]
MalformedArguments == [kind |-> "malformed"]
FunctionCall(code, lineStart, lineEnd) ==
    [kind |-> "call", code |-> code, lineStart |-> lineStart,
     lineEnd |-> lineEnd]

\* 494-500.
CodeFix(suggestion, args, indentedCode) ==
    [null |-> FALSE, file |-> suggestion.filename,
     line_start |-> args.lineStart, line_end |-> args.lineEnd,
     correction |-> indentedCode]

\* The try block 477-504: Threw for what lands in the catch clause, else
\* the value returned.  Splitting missing contents throws.
InlineTry(suggestion, file, answer) ==
    IF answer.kind = "rejected" THEN Threw
    ELSE IF answer.kind = "none" THEN Threw
    ELSE IF answer.kind = "malformed" THEN Threw
    ELSE IF ~file.current_contents.present THEN Threw
    ELSE LET contents == file.current_contents.text
             indented == indentCodeFix(contents, answer.code, answer.lineStart)
         IN  IF indented.threw THEN Threw
             ELSE LET codeFix == CodeFix(suggestion, answer, indented.value)
                  IN  IF isCodeSuggestionNew(contents, codeFix)
                      THEN Returned(codeFix)
                      ELSE Returned(NullFix)

\* generateInlineComments without its catch clause.
generateInlineCommentsNoCatch(suggestion, file, answer) ==
    InlineTry(suggestion, file, answer)

\* 473-509: the catch clause (505-508) turns every throw into null, so the
\* promise always resolves.
generateInlineComments(suggestion, file, answer) ==
    LET r == InlineTry(suggestion, file, answer)
    IN  IF r.threw THEN Returned(NullFix) ELSE r

\* Inputs of the inline fix: a three-line file whose first two lines are
\* indented, a one-line file, a file without contents; proposed codes.
IndentedText == <<" ", " ", "x", NL, " ", " ", "y", NL, "z">>
OneLineText == <<"x">>
InlineFiles ==
    <<InlineFile(<<"a", ".", "t", "s">>, Contents(IndentedText)),
      InlineFile(<<"b", ".", "t", "s">>, Contents(OneLineText)),
      InlineFile(<<"c", ".", "p", "y">>, NoContents)>>
Codes ==
    {<<>>, <<"x">>, <<"y">>, <<"w">>, <<" ", "x">>, <<"x", NL, "y">>,
     <<"x", NL, "y", NL, "z">>}
LineNumbers == (0 - MaxLine)..MaxLine
InlineAnswers ==
    {CallRejected, NoFunctionCall, MalformedArguments}
        \cup {FunctionCall(code, lineStart, lineEnd) :
                 code \in Codes, lineStart \in LineNumbers,
                 lineEnd \in LineNumbers}
SuggestionFor(file) == [filename |-> file.filename]

InitFix ==
    /\ \E i \in 1..Len(InlineFiles), answer \in InlineAnswers :
          fIn = Ran([suggestion |-> SuggestionFor(InlineFiles[i]),
                     file |-> InlineFiles[i], answer |-> answer])
    /\ fOut = NotRun

GenerateFix ==
    /\ ~fOut.ran
    /\ fOut' = Ran(generateInlineComments(fIn.value.suggestion,
                                          fIn.value.file,
                                          fIn.value.answer).value)
    /\ UNCHANGED fIn

FixInit ==
    InitFix /\ IdlePipeline /\ IdleDedup /\ IdleUrl /\ IdleStrip /\ IdleInline

NextFix ==
    GenerateFix /\ UNCHANGED <<pipelineVars, dedupVars, urlVars, stripVars,
                               inlineVars>>

SpecFix == FixInit /\ [][NextFix]_vars

(***************************************************************************)
(* The inline comment processing of processPullRequest (631-657): one      *)
(* generateInlineComments call per structured comment whose file is        *)
(* found, all in flight together, joined by Promise.all.                   *)
(***************************************************************************)
NoFile == [state |-> "nofile"]
InFlight == [state |-> "pending"]
Settled(answer, outcome) ==
    [state |-> "settled", answer |-> answer, outcome |-> outcome]

\* 639-641: files.find, the first file of that name.
FindFile(fs, suggestion) ==
    fs[CHOOSE i \in 1..Len(fs) :
           /\ fs[i].filename = suggestion.filename
           /\ \A j \in 1..(i - 1) : fs[j].filename # suggestion.filename]

\* Answers to the inline fix prompt: the three failures of the call, a
\* start line after the end of the file, code equal to line 1, new code for
\* line 1, new code for a range that ends after the end of the file.
InlineOutcomes ==
    {CallRejected, NoFunctionCall, MalformedArguments,
     FunctionCall(<<"w">>, MaxLine, MaxLine),
     FunctionCall(<<"x">>, 1, 1),
     FunctionCall(<<"w">>, 1, 1),
     FunctionCall(<<"w">>, 1, MaxLine)}

\* Filenames a structured comment may name; the last is no file of the
\* pull request.
CommentTargets ==
    {[filename |-> InlineFiles[i].filename] : i \in 1..Len(InlineFiles)}
        \cup {[filename |-> <<"z", ".", "t", "s">>]}

InitInline ==
    /\ \E sc \in SeqsUpTo(CommentTargets, MaxSuggestions) :
          /\ sc # <<>>
          /\ iIn = Ran([files |-> InlineFiles, structuredComments |-> sc])
    /\ iCalls = <<>>
    /\ iOut = NotRun

\* 636-647: the map callback starts every call before any of them settles.
StartInline ==
    /\ iCalls = <<>>
    /\ LET sc == iIn.value.structuredComments
       IN  iCalls' = [i \in 1..Len(sc) |->
                         IF HasFile(iIn.value.files, sc[i])
                         THEN InFlight ELSE NoFile]
    /\ UNCHANGED <<iIn, iOut>>

\* One generateInlineComments call settles, in any order.
SettleInline ==
    /\ ~iOut.ran
    /\ \E i \in 1..Len(iCalls), answer \in InlineOutcomes :
          /\ iCalls[i] = InFlight
          /\ LET suggestion == iIn.value.structuredComments[i]
                 file == FindFile(iIn.value.files, suggestion)
             IN  iCalls' = [iCalls EXCEPT ![i] =
                     Settled(answer,
                             generateInlineComments(suggestion, file, answer))]
    /\ UNCHANGED <<iIn, iOut>>

CallThrew(call) == call.state = "settled" /\ call.outcome.threw
ValueOf(call) == IF call.state = "nofile" THEN NullFix ELSE call.outcome.value

\* 636-657: Promise.all rejects as soon as one call has rejected, and
\* processPullRequest with it; otherwise, once every call has settled, the
\* non-null values are returned in the order of the structured comments.
JoinInline ==
    /\ iCalls # <<>>
    /\ ~iOut.ran
    /\ IF \E i \in 1..Len(iCalls) : CallThrew(iCalls[i])
       THEN iOut' = Ran(Threw)
       ELSE /\ \A i \in 1..Len(iCalls) : iCalls[i] # InFlight
            /\ LET inlineComments == [i \in 1..Len(iCalls) |-> ValueOf(iCalls[i])]
               IN  iOut' = Ran(Returned(
                       ReviewResult(iIn.value.structuredComments,
                                    SelectSeq(inlineComments,
                                              LAMBDA c : ~c.null))))
    /\ UNCHANGED <<iIn, iCalls>>

InlineInit ==
    InitInline /\ IdlePipeline /\ IdleDedup /\ IdleUrl /\ IdleStrip /\ IdleFix

NextInline ==
    \/ StartInline /\ UNCHANGED <<pipelineVars, dedupVars, urlVars, stripVars,
                                  fixVars>>
    \/ SettleInline /\ UNCHANGED <<pipelineVars, dedupVars, urlVars, stripVars,
                                   fixVars>>
    \/ JoinInline /\ UNCHANGED <<pipelineVars, dedupVars, urlVars, stripVars,
                                 fixVars>>

SpecInline == InlineInit /\ [][NextInline]_vars

(***************************************************************************)
(* Properties.                                                             *)
(***************************************************************************)
CurrentConvoBuilder == Builders[strategy].convoBuilder

RECURSIVE FlattenGroups(_)
FlattenGroups(gs) ==
    IF gs = <<>> THEN <<>> ELSE Head(gs) \o FlattenGroups(Tail(gs))

FilesIn(gs) ==
    LET flat == FlattenGroups(gs)
    IN  {flat[i] : i \in 1..Len(flat)}

Occurrences(file, gs) ==
    LET flat == FlattenGroups(gs)
    IN  Cardinality({i \in 1..Len(flat) : flat[i] = file})

\* C1: every batch handed to the model (the groups of processWithinLimitFiles
\* followed by those of processOutsideLimitFiles) satisfies
\* isConversationWithinLimit on the conversation built from that batch's
\* files with the conversation builder of the attempt.
C1_BatchesFit ==
    \A i \in 1..Len(groups) :
        isConversationWithinLimit(constructPrompt(groups[i], CurrentConvoBuilder))

\* C1 witness: an attempt whose batches come from the greedy split of an
\* extension group and from the deletion-stripped files.
C1_Witness ==
    /\ pc = "calls"
    /\ Len(plan.withinLimitsPatchGroups) >= 2
    /\ Len(plan.exceedingLimitsPatchGroups) >= 1
    /\ \A i \in 1..Len(groups) : Len(groups[i]) > 0

\* C2: every file classified as fits-alone appears in exactly one batch
\* emitted by processWithinLimitFiles.
C2_FitsAloneExactlyOnce ==
    \A i \in 1..Len(plan.patchesWithinModelLimit) :
        Occurrences(plan.patchesWithinModelLimit[i],
                    plan.withinLimitsPatchGroups) = 1

\* C3: when the structured strategy succeeds, the structuredComments of the
\* returned ReviewResult hold no two suggestions with the same identity key.
C3_UniqueIdentities ==
    (result.kind = "returned" /\ outcomes = <<"succeeded">>)
        => LET sc == result.review.structuredComments
           IN  \A i, j \in 1..Len(sc) :
                   i # j => Identity(sc[i]) # Identity(sc[j])

PlainComment(cs) ==
    [i \in 1..Len(cs) |->
        IF cs[i].content.kind = "null" THEN [kind |-> "text"] ELSE cs[i].content]

\* C4: when the structured parser throws on the joined outputs, the plain
\* pair is tried next, and once all its model calls have resolved its result
\* is returned: the joined outputs as the comment and no structured
\* suggestion, whatever the outputs are.
C4_FallbackToPlain ==
    [][ /\ (pc = "calls" /\ strategy = 1 /\ AllResolved
               /\ processXMLSuggestions(FeedbacksOf(calls)).threw)
           => (pc' = "retry" /\ strategy' = 2 /\ result' = NoResult)
        /\ (pc = "retry" /\ strategy = 2)
           => (pc' = "calls" /\ strategy' = 2
                  /\ Builders[strategy'].responseBuilder = "basic")
        /\ (pc = "calls" /\ strategy = 2 /\ AllResolved)
           => /\ pc' = "done"
              /\ result'.kind = "returned"
              /\ ~result'.review.null
              /\ result'.review.comment = PlainComment(calls)
              /\ result'.review.structuredComments = <<>>
              /\ result'.suggestions = <<>> ]_vars

\* C4 witness: the plain result returned after the structured parser threw
\* (the response builder ran twice), with a null output among the plain ones.
C4_Witness ==
    /\ pc = "done"
    /\ outcomes = <<"failed", "succeeded">>
    /\ builderRuns = 2
    /\ \E i \in 1..Len(calls) : calls[i].content.kind = "null"
    /\ result.review.structuredComments = <<>>

AllFailed ==
    /\ Len(outcomes) = Len(Builders)
    /\ \A i \in 1..Len(outcomes) : outcomes[i] = "failed"

\* C5: once every builders pair has failed, reviewChangesRetry raises and
\* processPullRequest ends with that error: no ReviewResult is returned.
C5_AllFailedIsFatal ==
    /\ (AllFailed /\ pc # "retry") => (pc = "error" /\ result = NoResult)
    /\ pc = "error" => (AllFailed /\ result = NoResult)
    /\ result.kind = "returned" => ~AllFailed

\* C5 witness: the error reached because a model call rejected under each
\* pair (no response builder ever ran).
C5_Witness == pc = "error" /\ builderRuns = 0 /\ modelCalls >= 2

\* C6: when no input file passes the filter, processPullRequest returns the
\* empty result without any model call and without any file fetch.
C6_EmptyWhenAllFiltered ==
    (pc # "start" /\ \A i \in 1..Len(files) : ~filterPRFile(files[i]))
        => /\ pc = "done"
           /\ result = ReviewResult(NullReview, <<>>)
           /\ modelCalls = 0
           /\ fetches = 0
           /\ builderRuns = 0

\* C6 witness: a non-empty input whose files were all filtered out.
C6_Witness == pc = "done" /\ Len(files) > 1 /\ filteredFiles = <<>>

TooLargeAlone(file, convoBuilder) ==
    /\ ~FitsAlone(file, convoBuilder)
    /\ ~FitsAlone(stripRemovedLines(file), convoBuilder)

NonEmptyGroups(gs) == SelectSeq(gs, LAMBDA g : Len(g) > 0)

\* C7: a file too large alone before and after deletion-stripping is in no
\* batch, and the batches of the other files are the ones planned without
\* it; the attempt goes on to a ReviewResult.
C7_TooLargeDropped ==
    /\ pc = "calls" =>
          LET b == CurrentConvoBuilder
              rest == SelectSeq(filteredFiles,
                                LAMBDA f : ~TooLargeAlone(f, b))
          IN  /\ \A f \in FilesIn(groups) :
                     \A i \in 1..Len(filteredFiles) :
                         TooLargeAlone(filteredFiles[i], b)
                             => f.filename # filteredFiles[i].filename
              /\ NonEmptyGroups(groups)
                     = NonEmptyGroups(GroupsOf(reviewChangesPlan(rest, b)))
    /\ (pc = "done" /\ Len(filteredFiles) > 0)
          => (result.kind = "returned" /\ ~result.review.null)

\* C7 witness: a review returned for a pull request with a file too large
\* under both builders and files that were batched.
C7_Witness ==
    /\ pc = "done"
    /\ result.kind = "returned"
    /\ \E i \in 1..Len(filteredFiles) :
          /\ TooLargeAlone(filteredFiles[i], "getXMLReviewPrompt")
          /\ TooLargeAlone(filteredFiles[i], "getReviewPrompt")
    /\ \E i \in 1..Len(groups) : Len(groups[i]) > 0

\* C8: the issue url is at most 2048 characters long, and the code block is
\* left out when the full url would be longer.
C8_UrlWithinLimit ==
    uOut.ran =>
        LET in == uIn.value
            code == IF in.codeblock.given /\ in.codeblock.text # <<>>
                    THEN encodeURIComponent(
                             Rep(NL, 1) \o in.codeblock.text \o Rep(NL, 1))
                    ELSE <<>>
            bare == IssueUrl(in.owner, in.repoName,
                             encodeURIComponent(in.title),
                             encodeURIComponent(in.body), <<>>)
            url == SubSeq(uOut.value, 2, Len(uOut.value) - 1)
        IN  /\ TextLen(url) <= UrlLimit
            /\ TextLen(bare \o code) > UrlLimit => url = bare

LastIndexOf(key, suggestions) ==
    CHOOSE i \in 1..Len(suggestions) :
        /\ Identity(suggestions[i]) = key
        /\ \A j \in (i + 1)..Len(suggestions) : Identity(suggestions[j]) # key

\* C9: the output of dedupSuggestions holds exactly one suggestion per
\* distinct identity key of the input, the last one of the input with it.
C9_LastWriteWins ==
    sOut.ran =>
        LET out == sOut.value
        IN  /\ \A i, j \in 1..Len(out) :
                   i # j => Identity(out[i]) # Identity(out[j])
            /\ {Identity(out[i]) : i \in 1..Len(out)}
                   = {Identity(sIn[i]) : i \in 1..Len(sIn)}
            /\ \A i \in 1..Len(out) :
                   out[i] = sIn[LastIndexOf(Identity(out[i]), sIn)]

\* C9 witness: an input with A before B of equal keys, deduplicated.
C9_Witness ==
    /\ sOut.ran
    /\ \E i, j \in 1..Len(sIn) :
          i < j /\ Identity(sIn[i]) = Identity(sIn[j]) /\ sIn[i] # sIn[j]
    /\ Len(sOut.value) < Len(sIn)

\* C10: stripping an already stripped file yields the same patch, and no
\* line of a stripped patch begins with '-'.
C10_StripIdempotent ==
    /\ pOut2.ran => pOut2.value.patch = pOut.value.patch
    /\ pOut.ran =>
          LET lines == Split(pOut.value.patch, NL)
          IN  \A i \in 1..Len(lines) : ~startsWith(lines[i], "-")

\* C10 witness: a patch that lost a removal line and kept others, stripped
\* twice.
C10_Witness ==
    /\ pOut2.ran
    /\ pOut.value.patch # pIn.value.patch
    /\ Len(pOut.value.patch) > 1

\* Lines lineStart..lineEnd (one-based, inclusive) of a text, joined.
TargetText(text, lineStart, lineEnd) ==
    LET fileLines == Split(text, NL)
        first == Max(lineStart, 1)
        last == Min(lineEnd, Len(fileLines))
    IN  IF first > last THEN <<>> ELSE Join(SubSeq(fileLines, first, last), NL)

\* C11: when the model answers with a function call for a file with
\* contents and lineStart is a line of the file, generateInlineComments
\* returns null exactly when the proposed code, re-indented with the leading
\* whitespace of line lineStart and trimmed, equals the trimmed text of lines
\* lineStart..lineEnd, and a fix exactly when the two differ.
C11_NullIffUnchanged ==
    (fOut.ran /\ fIn.value.answer.kind = "call"
              /\ fIn.value.file.current_contents.present) =>
        LET text == fIn.value.file.current_contents.text
            args == fIn.value.answer
            indented == indentCodeFix(text, args.code, args.lineStart)
        IN  ~indented.threw =>
                (fOut.value.null <=>
                    trim(indented.value)
                        = trim(TargetText(text, args.lineStart, args.lineEnd)))

\* A call of the inline comment processing whose synthesis failed: the model
\* call rejected, returned no function call or malformed arguments, the
\* file has no contents, or the start line is no line of the file.
SynthesisFailed(i) ==
    LET call == iCalls[i]
        file == FindFile(iIn.value.files, iIn.value.structuredComments[i])
    IN  /\ call.state = "settled"
        /\ \/ call.answer.kind # "call"
           \/ ~file.current_contents.present
           \/ call.answer.lineStart < 1
           \/ call.answer.lineStart
                  > Len(Split(file.current_contents.text, NL))

\* A call that settled with a fix.
ProducedFix(i) == iCalls[i].state = "settled" /\ ~ValueOf(iCalls[i]).null

\* C12: no generateInlineComments call rejects, a failed synthesis yields
\* null for its own suggestion, and once processPullRequest has finished it
\* has returned a ReviewResult whose suggestions are exactly the fixes of
\* the other calls, in the order of the structured comments, whatever the
\* order the calls settled in.
C12_FailureIsLocal ==
    /\ \A i \in 1..Len(iCalls) :
          /\ ~CallThrew(iCalls[i])
          /\ SynthesisFailed(i) => ValueOf(iCalls[i]).null
    /\ iOut.ran =>
          /\ ~iOut.value.threw
          /\ LET fixed == {i \in 1..Len(iCalls) : ProducedFix(i)}
                 out == iOut.value.value.suggestions
             IN  /\ Len(out) = Cardinality(fixed)
                 /\ \A i \in fixed :
                       out[Cardinality({j \in fixed : j <= i})]
                           = iCalls[i].outcome.value

\* C12 witness: processPullRequest has returned a fix for a later suggestion
\* although the synthesis for an earlier one failed, and a fix for an
\* earlier suggestion although the synthesis for a later one failed.
C12_Witness ==
    /\ iOut.ran
    /\ ~iOut.value.threw
    /\ \E i, j, k \in 1..Len(iCalls) :
          /\ i < j /\ j < k
          /\ ProducedFix(i) /\ SynthesisFailed(j) /\ ProducedFix(k)
          /\ iCalls[j].answer.kind = "rejected"
    /\ Len(iOut.value.value.suggestions) = 2

\* A model output in the markup dialect: a root element with zero or more
\* suggestion elements, each with its five children.
WellFormed(fb) ==
    /\ fb.kind = "xml"
    /\ \A i \in 1..Len(fb.suggestions) :
          LET raw == fb.suggestions[i]
          IN  /\ raw.describe # <<>> /\ raw.type # <<>> /\ raw.comment # <<>>
              /\ raw.code # <<>> /\ raw.filename # <<>>

\* C13: when every batch of the structured attempt is answered with a
\* well-formed output, among them outputs with zero suggestion elements, the
\* structured response builder succeeds: the attempt is not failed and the
\* plain strategy is not started.
C13_EmptyReviewAccepted ==
    [][ (pc = "calls" /\ strategy = 1 /\ AllResolved
            /\ \A i \in 1..Len(calls) : WellFormed(calls[i].content))
        => (pc' \in {"inline", "done"} /\ outcomes' = <<"succeeded">>) ]_vars

\* The number of lines of the current contents of the file a fix names.
LinesOfFile(fs, fix) ==
    LET file == FindFile(fs, [filename |-> fix.file])
    IN  Len(Split(file.current_contents.text, NL))

\* C14: every fix in the suggestions processPullRequest returns has
\* 1 <= line_start <= line_end <= number of lines of the current contents
\* of the file it names.
C14_FixRangeWithinFile ==
    (iOut.ran /\ ~iOut.value.threw) =>
        LET out == iOut.value.value.suggestions
        IN  \A k \in 1..Len(out) :
                /\ 1 <= out[k].line_start
                /\ out[k].line_start <= out[k].line_end
                /\ out[k].line_end <= LinesOfFile(iIn.value.files, out[k])

\* The strategy pair of the attempt in progress, told from the attempts made
\* so far: the structured pair when there is none, the plain pair after one.
PairInOrder ==
    IF outcomes = <<>>
    THEN [convoBuilder |-> "getXMLReviewPrompt", responseBuilder |-> "xml"]
    ELSE [convoBuilder |-> "getReviewPrompt", responseBuilder |-> "basic"]

\* C15: an attempt is in progress only after every earlier pair has failed,
\* the first attempt plans with the structured prompt and the second with
\* the plain one, the successful attempt's builder is the one of its place in
\* the list, and after a success no further attempt is started: the recorded
\* attempts, the plan and the batch calls stay as they are.
C15_InOrderUntilSuccess ==
    /\ [](pc = "calls" =>
            /\ Len(outcomes) = strategy - 1
            /\ \A i \in 1..Len(outcomes) : outcomes[i] = "failed"
            /\ plan = reviewChangesPlan(filteredFiles, PairInOrder.convoBuilder))
    /\ [][ /\ (pc = "calls" /\ outcomes' = Append(outcomes, "succeeded"))
              => reviewComments'
                     = Review(responseBuilder(PairInOrder.responseBuilder,
                                              FeedbacksOf(calls)).value)
           /\ (outcomes # <<>> /\ Last(outcomes) = "succeeded")
              => /\ outcomes' = outcomes /\ strategy' = strategy
                 /\ plan' = plan /\ calls' = calls
                 /\ builderRuns' = builderRuns
                 /\ pc' = "done" ]_vars

\* C15 witness: the plain attempt in progress after the structured attempt
\* issued its calls and failed.
C15_Witness ==
    /\ pc = "calls"
    /\ strategy = 2
    /\ outcomes = <<"failed">>
    /\ builderRuns = 1
    /\ Len(calls) > 0

\* C16: every batch call of an attempt is in flight before any of them
\* settles; the response builder runs only in a step from a state where
\* every call has resolved; what a successful builder run returns is what
\* the attempt's builder makes of the answers taken in batch order, whatever
\* the order they arrived in; and with a rejected call the builder does not
\* run and the attempt can only end as failed.
C16_JoinedByIndex ==
    [][ /\ (pc = "retry" /\ pc' = "calls")
           => \A i \in 1..Len(calls') : calls'[i] = Pending
        /\ builderRuns' # builderRuns
           => /\ pc = "calls"
              /\ Len(arrivals) = Len(calls)
              /\ \A i \in 1..Len(calls) : calls[i].state = "resolved"
        /\ (builderRuns' # builderRuns /\ pc' \in {"inline", "done"})
           => reviewComments'
                  = Review(responseBuilder(Builders[strategy].responseBuilder,
                               [i \in 1..Len(groups) |-> calls[i].content]).value)
        /\ (pc = "calls" /\ \E i \in 1..Len(calls) : calls[i] = Rejected)
           => /\ builderRuns' = builderRuns
              /\ pc' # pc => (pc' = "retry"
                                 /\ outcomes' = Append(outcomes, "failed")) ]_vars

\* C16 witness: a review returned from two batch answers that differ and
\* arrived in the opposite order of their batches.
C16_Witness ==
    /\ pc = "done"
    /\ outcomes # <<>>
    /\ Last(outcomes) = "succeeded"
    /\ Len(calls) = 2
    /\ arrivals = <<2, 1>>
    /\ calls[1].content # calls[2].content
    /\ result.kind = "returned"

\* The batches of withinLimitsPatchGroups made of files of one extension.
BatchesOfExtension(ext) ==
    SelectSeq(plan.withinLimitsPatchGroups,
              LAMBDA g : g # <<>> /\ ExtensionOf(g[1]) = ext)

Fits(fs) ==
    isConversationWithinLimit(constructPrompt(fs, CurrentConvoBuilder))

\* C17: when the fits-alone files do not fit together, for every extension
\* group of them that does not fit as a whole, the group's batches
\* concatenated are the group's files in ascending order of patchTokenLength,
\* and a batch followed by another of the group does not fit once the first
\* file of the next batch is appended to it.
C17_GreedyAscending ==
    (pc = "calls" /\ ~Fits(plan.patchesWithinModelLimit)) =>
        LET grouped == groupFilesByExtension(plan.patchesWithinModelLimit)
        IN  \A e \in 1..Len(grouped) :
                ~Fits(grouped[e].files) =>
                    LET batches == BatchesOfExtension(grouped[e].ext)
                        flat == FlattenGroups(batches)
                    IN  /\ Len(flat) = Len(grouped[e].files)
                        /\ FilesIn(batches) = FilesIn(<<grouped[e].files>>)
                        /\ \A i, j \in 1..Len(flat) :
                               i < j => flat[i].patchTokenLength
                                            <= flat[j].patchTokenLength
                        /\ \A k \in 1..(Len(batches) - 1) :
                               ~Fits(Append(batches[k], batches[k + 1][1]))

\* C17 witness: a group listed with its most expensive file first, split
\* into a batch of two files and a batch of the file that no longer fitted.
C17_Witness ==
    /\ pc = "calls"
    /\ ~Fits(plan.patchesWithinModelLimit)
    /\ Len(plan.patchesWithinModelLimit) = 3
    /\ plan.patchesWithinModelLimit[1].patchTokenLength
           > plan.patchesWithinModelLimit[2].patchTokenLength
    /\ Len(plan.withinLimitsPatchGroups) = 2
    /\ Len(plan.withinLimitsPatchGroups[1]) = 2
    /\ plan.withinLimitsPatchGroups[2] = <<plan.patchesWithinModelLimit[1]>>

\* C18: every batch of an attempt holds at least one file, and the attempt
\* issues no more model calls than there are files that passed the filter.
C18_NoEmptyBatch ==
    pc = "calls" =>
        /\ \A i \in 1..Len(groups) : Len(groups[i]) >= 1
        /\ Len(calls) <= Len(filteredFiles)

====
